---- MODULE Spec2Model ----
(***************************************************************************)
(* Tenant Usage Grid (src/src/App.tsx).  The file holds two variants of    *)
(* the App component: the first (lines 1-224) keeps urlList as a string    *)
(* and returns the parsed snapshot as it is; the second (lines 226-664)    *)
(* keeps urlList as a list of {tag,url} items, normalizes what it loads    *)
(* and adds the filter / group view.  `variant` says which one runs.       *)
(*                                                                         *)
(* JavaScript values are tagged records: [t |-> "string", s |-> chars],    *)
(* [t |-> "number", n |-> n], [t |-> "array", a |-> seq], [t |-> "null"],  *)
(* [t |-> "undefined"], and objects [t |-> "object", <property> |-> value].*)
(* An absent property is an absent field.  Text is a sequence of one       *)
(* character strings so that trim, split, toLowerCase and includes are     *)
(* computed character by character.                                        *)
(***************************************************************************)
EXTENDS Integers, Sequences, FiniteSets, TLC

VARIABLES
    variant,      \* 1: App of lines 56-222, 2: App of lines 405-662
    seedRecords,  \* the bundled ./data/seedRecords.json document
    storage,      \* localStorage.getItem(storageKey): null or a text
    records,      \* the React state `records`
    uuid,         \* how many crypto.randomUUID() values were handed out
    lastOp,       \* the handler that ran last, with its arguments
    ops,          \* how many handlers and reloads have run
    filters,      \* the React state `filters` (second variant)
    groupBy,      \* the React state `groupBy` (second variant)
    urlIn,        \* an input of parseUrlList
    urlOut,       \* parseUrlList's results on urlIn: <<>>, <<once>>, <<once, twice>>
    urlStr        \* parseUrlList's result on the single string urlIn[1], when urlIn = [s]

vars == <<variant, seedRecords, storage, records, uuid, lastOp, ops, filters, groupBy,
          urlIn, urlOut, urlStr>>

storeVars == <<variant, seedRecords, storage, records, uuid, lastOp, ops>>
viewVars == <<filters, groupBy>>
urlVars == <<urlIn, urlOut, urlStr>>

-----------------------------------------------------------------------------
(* Bounds of the model *)

\* longest string drawn as an input of parseUrlList
MaxLen == 5

\* longest tag or url of an object drawn as an input of parseUrlList
MaxFieldLen == 2

\* crypto.randomUUID() values available in one run
MaxFresh == 4

\* handler runs (mutations and reloads) in one run
MaxOps == 2

\* rows of the record list the view is computed on
MaxRows == 4

-----------------------------------------------------------------------------
(* JavaScript values *)

undefined == [t |-> "undefined"]
null == [t |-> "null"]
Str(s) == [t |-> "string", s |-> s]
Num(n) == [t |-> "number", n |-> n]
Arr(a) == [t |-> "array", a |-> a]

IsString(v) == v.t = "string"
IsArray(v) == v.t = "array"
IsObject(v) == v.t = "object"

\* property read v[f] on a value that is neither null nor undefined
Get(v, f) == IF IsObject(v) /\ f \in DOMAIN v THEN v[f] ELSE undefined

\* v[f] throws a TypeError
GetThrows(v) == v.t \in {"null", "undefined"}

\* !v
Falsy(v) ==
    \/ v.t \in {"undefined", "null"}
    \/ IsString(v) /\ v.s = <<>>
    \/ v.t = "number" /\ v.n = 0

Truthy(v) == ~Falsy(v)

\* a || b
Or(a, b) == IF Truthy(a) THEN a ELSE b

\* a ?? b
Nullish(a, b) == IF a.t \in {"undefined", "null"} THEN b ELSE a

\* { ...record, [field]: value }
Spread(record, field, value) ==
    [g \in ((IF IsObject(record) THEN DOMAIN record ELSE {}) \cup {field, "t"}) |->
        IF g = field THEN value
        ELSE IF g = "t" THEN "object"
        ELSE record[g]]

RECURSIVE Digits(_)
Digits(n) == IF n < 10 THEN <<ToString(n)>> ELSE Append(Digits(n \div 10), ToString(n % 10))

\* String(v) for the values a tag or url holds here: strings and numbers
String(v) == IF IsString(v) THEN v.s ELSE IF v.t = "number" THEN Digits(v.n) ELSE <<>>

-----------------------------------------------------------------------------
(* Text *)

IsSpace(c) == c \in {" ", "\n"}

\* the character class [\n,\s] of parseUrlList's split
IsDelimiter(c) == c = "\n" \/ c = "," \/ IsSpace(c)

RECURSIVE TrimStart(_)
TrimStart(s) == IF s # <<>> /\ IsSpace(Head(s)) THEN TrimStart(Tail(s)) ELSE s

RECURSIVE TrimEnd(_)
TrimEnd(s) ==
    IF s # <<>> /\ IsSpace(s[Len(s)]) THEN TrimEnd(SubSeq(s, 1, Len(s) - 1)) ELSE s

\* String.prototype.trim
Trim(s) == TrimEnd(TrimStart(s))

RECURSIVE SplitFrom(_, _, _)
SplitFrom(s, cur, inRun) ==
    IF s = <<>> THEN <<cur>>
    ELSE IF IsDelimiter(Head(s))
         THEN IF inRun THEN SplitFrom(Tail(s), cur, TRUE)
              ELSE <<cur>> \o SplitFrom(Tail(s), <<>>, TRUE)
         ELSE SplitFrom(Tail(s), Append(cur, Head(s)), FALSE)

\* s.split(/[\n,\s]+/): the pieces between maximal runs of delimiters, the
\* empty pieces before a leading and after a trailing run included
Split(s) == SplitFrom(s, <<>>, FALSE)

LowerChar(c) == IF c = "A" THEN "a" ELSE IF c = "B" THEN "b" ELSE c

\* toLowerCase left out
toLowerCase_asIs(s) == s

\* String.prototype.toLowerCase
toLowerCase(s) == [i \in 1..Len(s) |-> LowerChar(s[i])]

\* String.prototype.includes
includes(hay, needle) ==
    \E k \in 0..(Len(hay) - Len(needle)) : SubSeq(hay, k + 1, k + Len(needle)) = needle

Link == <<"L", "i", "n", "k">>

-----------------------------------------------------------------------------
(* URL list normalization (second variant) *)

UrlItem(tag, url) == [t |-> "object", tag |-> Str(tag), url |-> Str(url)]

\* normalizeUrlItem wrapping a string element without trimming it
normalizeUrlItem_untrimmed(value) ==
    IF IsString(value)
    THEN IF Trim(value.s) = <<>> THEN null ELSE UrlItem(Link, value.s)
    ELSE IF Truthy(value) /\ value.t \in {"object", "array"}
         THEN LET url == Trim(String(Nullish(Get(value, "url"), Str(<<>>))))
                  tag0 == Trim(String(Nullish(Get(value, "tag"), Str(Link))))
                  tag == IF tag0 = <<>> THEN Link ELSE tag0
              IN  IF url = <<>> THEN null ELSE UrlItem(tag, url)
         ELSE null

\* normalizeUrlItem without the `if (!v) return null` of the string branch
normalizeUrlItem_keepsEmpty(value) ==
    IF IsString(value)
    THEN UrlItem(Link, Trim(value.s))
    ELSE IF Truthy(value) /\ value.t \in {"object", "array"}
         THEN LET url == Trim(String(Nullish(Get(value, "url"), Str(<<>>))))
                  tag0 == Trim(String(Nullish(Get(value, "tag"), Str(Link))))
                  tag == IF tag0 = <<>> THEN Link ELSE tag0
              IN  IF url = <<>> THEN null ELSE UrlItem(tag, url)
         ELSE null

normalizeUrlItem(value) ==
    IF IsString(value)
    THEN LET v == Trim(value.s)
         IN  IF v = <<>> THEN null ELSE UrlItem(Link, v)
    ELSE IF Truthy(value) /\ value.t \in {"object", "array"}
         THEN LET url == Trim(String(Nullish(Get(value, "url"), Str(<<>>))))
                  tag0 == Trim(String(Nullish(Get(value, "tag"), Str(Link))))
                  tag == IF tag0 = <<>> THEN Link ELSE tag0
              IN  IF url = <<>> THEN null ELSE UrlItem(tag, url)
         ELSE null

NotNull(item) == item # null

WrapLink(url) == UrlItem(Link, url)

NonEmptyText(s) == s # <<>>

parseUrlList(input) ==
    IF IsArray(input)
    THEN LET mapped == [i \in 1..Len(input.a) |-> normalizeUrlItem(input.a[i])]
         IN  Arr(SelectSeq(mapped, NotNull))
    ELSE IF IsString(input)
         THEN LET pieces == Split(input.s)
                  trimmed == [i \in 1..Len(pieces) |-> Trim(pieces[i])]
                  kept == SelectSeq(trimmed, NonEmptyText)
              IN  Arr([i \in 1..Len(kept) |-> WrapLink(kept[i])])
         ELSE Arr(<<>>)

-----------------------------------------------------------------------------
(* Records *)

read == <<"r", "e", "a", "d">>
wip == <<"w", "i", "p">>
unset == <<"u", "n", "s", "e", "t">>
expire == <<"e", "x", "p", "i", "r", "e">>

\* the own keys of statusConfig
StatusKeys == {read, wip, unset, expire}

\* statusConfig is a plain object: a key Object.prototype defines is found too
ObjectPrototypeKeys == {<<"c", "o", "n", "s", "t", "r", "u", "c", "t", "o", "r">>}

\* statusConfig[status] is truthy
StatusConfigTruthy(status) ==
    IsString(status) /\ status.s \in (StatusKeys \cup ObjectPrototypeKeys)

\* the n-th value crypto.randomUUID() hands out
randomUUID(n) == Str(<<"u", "u", "i", "d">> \o Digits(n))

RecordFields ==
    {"id", "tenantId", "branchName", "usage", "urlList", "omsFirm", "gioFirm", "note", "status"}

\* blankRecord() of variant v, with the n-th UUID
blankRecord(v, n) ==
    [t |-> "object",
     id |-> randomUUID(n),
     tenantId |-> Str(<<>>),
     branchName |-> Str(<<>>),
     usage |-> Str(<<>>),
     urlList |-> IF v = 1 THEN Str(<<>>) ELSE Arr(<<>>),
     omsFirm |-> Str(<<>>),
     gioFirm |-> Str(<<>>),
     note |-> Str(<<>>),
     status |-> Str(unset)]

\* normalizeSeedRecord of the first variant
normalizeSeedRecord1(record) ==
    Spread(record, "status",
           IF StatusConfigTruthy(Get(record, "status")) THEN Get(record, "status")
           ELSE Str(unset))

\* normalizeSeedRecord of the second variant, the n-th UUID being the next one
normalizeSeedRecord2(record, n) ==
    [t |-> "object",
     id |-> Or(Get(record, "id"), randomUUID(n)),
     tenantId |-> Or(Get(record, "tenantId"), Str(<<>>)),
     branchName |-> Or(Get(record, "branchName"), Str(<<>>)),
     usage |-> Or(Get(record, "usage"), Str(<<>>)),
     urlList |-> parseUrlList(Get(record, "urlList")),
     omsFirm |-> Or(Get(record, "omsFirm"), Str(<<>>)),
     gioFirm |-> Or(Get(record, "gioFirm"), Str(<<>>)),
     note |-> Or(Get(record, "note"), Str(<<>>)),
     status |-> IF Truthy(Get(record, "status")) /\ StatusConfigTruthy(Get(record, "status"))
                THEN Get(record, "status")
                ELSE Str(unset)]

\* the entry takes a UUID in normalizeSeedRecord (second variant)
NeedsId(record) == Falsy(Get(record, "id"))

\* UUIDs taken by the entries before the i-th
TakenBefore(list, i) == Cardinality({j \in 1..(i - 1) : NeedsId(list[j])})

\* list.map(normalizeSeedRecord) of variant v, n UUIDs having been handed out
MapNormalize(v, list, n) ==
    [i \in 1..Len(list) |->
        IF v = 1 THEN normalizeSeedRecord1(list[i])
        ELSE normalizeSeedRecord2(list[i], n + TakenBefore(list, i) + 1)]

\* the filter of getSeedData with || in place of &&
HasIdAndTenant_either(record) == Truthy(Get(record, "id")) \/ Truthy(Get(record, "tenantId"))

\* the filter of getSeedData: record.id && record.tenantId
HasIdAndTenant(record) == Truthy(Get(record, "id")) /\ Truthy(Get(record, "tenantId"))

\* the UUIDs getSeedData() takes
SeedTakes(v) ==
    IF ~IsArray(seedRecords) THEN 1
    ELSE LET taken == IF v = 1 THEN 0 ELSE TakenBefore(seedRecords.a, Len(seedRecords.a) + 1)
         IN  IF Len(SelectSeq(MapNormalize(v, seedRecords.a, 0), HasIdAndTenant)) > 0
             THEN taken ELSE taken + 1

\* getSeedData() of variant v, n UUIDs having been handed out
getSeedData(v, n) ==
    IF ~IsArray(seedRecords) THEN Arr(<<blankRecord(v, n + 1)>>)
    ELSE LET mapped == SelectSeq(MapNormalize(v, seedRecords.a, n), HasIdAndTenant)
         IN  IF Len(mapped) > 0 THEN Arr(mapped)
             ELSE Arr(<<blankRecord(v, n + SeedTakes(v))>>)

-----------------------------------------------------------------------------
(* The persisted snapshot *)

\* localStorage texts: the empty text, a text JSON.parse rejects, and the
\* JSON text of a value
EmptyText == [t |-> "text", kind |-> "empty"]
UnparsableText == [t |-> "text", kind |-> "unparsable"]
JsonText(value) == [t |-> "text", kind |-> "json", value |-> value]

\* the value JSON.stringify writes for v: a property holding undefined is
\* left out, an array element holding undefined is written as null
RECURSIVE JsonValue(_)
JsonValue(v) ==
    IF IsArray(v)
    THEN Arr([i \in 1..Len(v.a) |-> IF v.a[i] = undefined THEN null ELSE JsonValue(v.a[i])])
    ELSE IF IsObject(v)
         THEN [g \in {h \in DOMAIN v : h = "t" \/ v[h] # undefined} |->
                  IF g = "t" THEN "object" ELSE JsonValue(v[g])]
         ELSE v

\* JSON.stringify(next)
stringify(next) == JsonText(JsonValue(next))

\* parsed.length > 0 throws
LengthThrows(parsed) == GetThrows(parsed)

\* parsed.length > 0
LengthPositive(parsed) ==
    IF IsArray(parsed) THEN Len(parsed.a) > 0
    ELSE IF IsString(parsed) THEN Len(parsed.s) > 0
    ELSE LET length == Get(parsed, "length")
         IN  length.t = "number" /\ length.n > 0

\* the initializer of `records` falls back to getSeedData()
LoadUsesSeed(v) ==
    \/ storage = null
    \/ storage.kind = "empty"
    \/ storage.kind = "unparsable"
    \/ LengthThrows(storage.value)
    \/ ~LengthPositive(storage.value)
    \/ v = 2 /\ ~IsArray(storage.value)
    \/ v = 2 /\ \E i \in 1..Len(storage.value.a) : GetThrows(storage.value.a[i])

\* the initializer of `records`, n UUIDs having been handed out
initialRecords(v, n) ==
    IF LoadUsesSeed(v) THEN getSeedData(v, n)
    ELSE IF v = 1 THEN storage.value
    ELSE Arr(MapNormalize(2, storage.value.a, n))

\* the UUIDs the initializer takes
LoadTakes(v) ==
    IF LoadUsesSeed(v) THEN SeedTakes(v)
    ELSE IF v = 1 THEN 0
    ELSE TakenBefore(storage.value.a, Len(storage.value.a) + 1)

-----------------------------------------------------------------------------
(* Rendering: the handlers exist only while the component tree renders *)

\* the table body of the first variant renders
Renders1(recs) ==
    /\ IsArray(recs)
    /\ \A i \in 1..Len(recs.a) :
        /\ ~GetThrows(recs.a[i])
        /\ StatusConfigTruthy(Get(recs.a[i], "status"))

\* filteredRecords (with the filters empty) and the table body of the second
\* variant render
Renders2(recs) ==
    /\ IsArray(recs)
    /\ \A i \in 1..Len(recs.a) :
        /\ ~GetThrows(recs.a[i])
        /\ IsString(Get(recs.a[i], "tenantId"))
        /\ IsString(Get(recs.a[i], "branchName"))
        /\ IsString(Get(recs.a[i], "usage"))
        /\ StatusConfigTruthy(Get(recs.a[i], "status"))
        /\ IsArray(Get(recs.a[i], "urlList"))

Renders == IF variant = 1 THEN Renders1(records) ELSE Renders2(records)

-----------------------------------------------------------------------------
(* The view (second variant) *)

all == <<"a", "l", "l">>
AllRecords == <<"A", "l", "l", " ", "R", "e", "c", "o", "r", "d", "s">>
Unspecified == <<"U", "n", "s", "p", "e", "c", "i", "f", "i", "e", "d">>

emptyFilters ==
    [t |-> "object", tenantId |-> Str(<<>>), branchName |-> Str(<<>>), usage |-> Str(<<>>),
     status |-> Str(all)]

\* the callback of records.filter in filteredRecords
FilterPasses(record) ==
    LET statusMatch == filters.status = Str(all) \/ record.status = filters.status
    IN  /\ statusMatch
        /\ includes(toLowerCase(record.tenantId.s), toLowerCase(filters.tenantId.s))
        /\ includes(toLowerCase(record.branchName.s), toLowerCase(filters.branchName.s))
        /\ includes(toLowerCase(record.usage.s), toLowerCase(filters.usage.s))

filteredRecords == SelectSeq(records.a, FilterPasses)

\* groups.get(key) || []
MapGet(groups, key) ==
    IF \E i \in 1..Len(groups) : groups[i].key = key
    THEN LET i == CHOOSE i \in 1..Len(groups) : groups[i].key = key IN groups[i].rows
    ELSE <<>>

\* groups.set(key, rows): a new key goes last, a known key keeps its place
MapSet(groups, key, rows) ==
    IF \E i \in 1..Len(groups) : groups[i].key = key
    THEN [i \in 1..Len(groups) |->
            IF groups[i].key = key THEN [key |-> key, rows |-> rows] ELSE groups[i]]
    ELSE Append(groups, [key |-> key, rows |-> rows])

\* the forEach of groupedRecords over rows, groups being the Map so far
RECURSIVE GroupRows(_, _, _)
GroupRows(rows, by, groups) ==
    IF rows = <<>> THEN groups
    ELSE LET record == Head(rows)
             key == String(Or(Get(record, by), Str(Unspecified)))
             existing == Append(MapGet(groups, key), record)
         IN  GroupRows(Tail(rows), by, MapSet(groups, key, existing))

\* groupedRecords built from the rows of the whole record list
groupedRecords_unfiltered ==
    IF groupBy = "none" THEN <<[key |-> AllRecords, rows |-> records.a]>>
    ELSE GroupRows(records.a, groupBy, <<>>)

groupedRecords ==
    IF groupBy = "none" THEN <<[key |-> AllRecords, rows |-> filteredRecords]>>
    ELSE GroupRows(filteredRecords, groupBy, <<>>)

ViewRecord(tenantId, branchName, usage, status) ==
    [t |-> "object",
     id |-> Str(<<>>),
     tenantId |-> Str(tenantId),
     branchName |-> Str(branchName),
     usage |-> Str(usage),
     urlList |-> Arr(<<>>),
     omsFirm |-> Str(<<>>),
     gioFirm |-> Str(<<>>),
     note |-> Str(<<>>),
     status |-> Str(status)]

\* the rows the record list is drawn from, before each gets its id
ViewRows ==
    { ViewRecord(<<"A", "b">>, <<>>, <<"a">>, wip),
      ViewRecord(<<"b">>, <<"B">>, <<>>, unset),
      ViewRecord(<<>>, <<"b">>, <<"a">>, wip),
      ViewRecord(<<"a", "B">>, <<>>, Unspecified, read) }

RECURSIVE RowLists(_)
RowLists(n) ==
    IF n = 0 THEN {<<>>}
    ELSE LET shorter == RowLists(n - 1)
         IN  shorter \cup {Append(l, r) : l \in shorter, r \in ViewRows}

\* the i-th row's id
RowId(i) == Str(<<"r">> \o Digits(i))

WithRowIds(list) == [i \in 1..Len(list) |-> [list[i] EXCEPT !.id = RowId(i)]]

\* what the user may type into the filter inputs and pick in the selects
FilterInputs ==
    [tenantId |-> {Str(<<>>), Str(<<"a">>), Str(<<"B">>)},
     branchName |-> {Str(<<>>), Str(<<"b">>)},
     usage |-> {Str(<<>>), Str(<<"A">>)},
     status |-> {Str(all), Str(wip), Str(unset)}]

GroupByOptions == {"none", "status", "usage", "branchName"}

InitView ==
    /\ variant = 2
    /\ seedRecords = Arr(<<>>)
    /\ \E list \in RowLists(MaxRows) : records = Arr(WithRowIds(list))
    /\ storage = stringify(records)
    /\ uuid = 0
    /\ lastOp = [op |-> "Load"]
    /\ ops = 0
    /\ filters = emptyFilters
    /\ groupBy = "none"
    /\ urlIn = undefined
    /\ urlOut = <<>>
    /\ urlStr = <<>>

\* an input or the status select of the filter panel changes
SetFilters ==
    /\ \E field \in {"tenantId", "branchName", "usage", "status"} :
       \E value \in FilterInputs[field] :
          filters' = [filters EXCEPT ![field] = value]
    /\ UNCHANGED <<groupBy, storeVars, urlVars>>

\* the "Group by" select changes
SetGroupBy ==
    /\ \E by \in GroupByOptions : groupBy' = by
    /\ UNCHANGED <<filters, storeVars, urlVars>>

NextView == SetFilters \/ SetGroupBy

SpecView == InitView /\ [][NextView]_vars

-----------------------------------------------------------------------------
(* The store: inputs *)

FullRecord(id, tenantId, status, urlList) ==
    [t |-> "object",
     id |-> Str(id),
     tenantId |-> Str(tenantId),
     branchName |-> Str(<<>>),
     usage |-> Str(<<>>),
     urlList |-> urlList,
     omsFirm |-> Str(<<>>),
     gioFirm |-> Str(<<>>),
     note |-> Str(<<>>),
     status |-> Str(status)]

bogus == <<"b", "o", "g", "u", "s">>
constructor == <<"c", "o", "n", "s", "t", "r", "u", "c", "t", "o", "r">>
id1 == <<"s", "1">>
id2 == <<"s", "2">>
tenant811 == <<"8", "1", "1">>
tenant810 == <<"8", "1", "0">>

\* seed documents: entries with id and tenantId, with only one of them and
\* with neither; a document that is no array
SeedDocuments ==
    { Arr(<<FullRecord(id1, tenant811, wip, Arr(<<Str(<<"x">>)>>)),
            [t |-> "object", id |-> Str(id2), status |-> Str(read)],
            [t |-> "object", tenantId |-> Str(tenant810), status |-> Str(bogus),
             urlList |-> Str(<<"a", ",", " ", "b">>)]>>),
      Arr(<<[t |-> "object"], [t |-> "object", id |-> Str(id2)]>>),
      [t |-> "object"] }

\* what localStorage may hold when the page loads
Snapshots ==
    { null, EmptyText, UnparsableText,
      JsonText(Arr(<<>>)), JsonText(null), JsonText(Num(5)), JsonText(Str(<<"a">>)),
      JsonText([t |-> "object"]), JsonText([t |-> "object", length |-> Num(2)]),
      JsonText(Arr(<<Num(1)>>)), JsonText(Arr(<<null>>)),
      JsonText(Arr(<<FullRecord(id1, tenant811, read, Arr(<<UrlItem(Link, <<"x">>)>>))>>)),
      JsonText(Arr(<<FullRecord(id1, tenant811, read, Str(<<"x">>)),
                     FullRecord(id2, <<>>, unset, Str(<<>>))>>)),
      JsonText(Arr(<<FullRecord(id1, tenant811, wip, Arr(<<>>)),
                     FullRecord(id1, tenant810, read, Arr(<<>>))>>)),
      JsonText(Arr(<<FullRecord(id1, tenant811, bogus, Arr(<<>>))>>)),
      JsonText(Arr(<<FullRecord(id1, tenant811, constructor, Arr(<<>>))>>)),
      JsonText(Arr(<<[t |-> "object", tenantId |-> Str(tenant810), status |-> Str(wip)]>>)) }

\* an id no record has
AbsentId == Str(<<"n", "o", "n", "e">>)

\* the ids of the rendered rows
RowIds == {Get(records.a[i], "id") : i \in 1..Len(records.a)}

\* the options of the status select
StatusOptions == {Str(k) : k \in StatusKeys}

TextFields == {"tenantId", "branchName", "usage", "omsFirm", "gioFirm", "note"}

\* what the user types into a text input
TypedTexts == {Str(<<"A">>)}

\* what the user types into the URL textarea of the first variant
TypedUrlTexts == {Str(<<"a", ",", "b">>)}

\* the draft tag and url of the URL editor when Add is clicked
Drafts == {<<<<>>, <<"a">>>>, <<<<"t">>, <<" ", "b">>>>, <<<<>>, <<" ">>>>}

\* what the user types into a tag or url input of an existing entry
TypedItemTexts == {<<>>, <<"c">>}

-----------------------------------------------------------------------------
(* The store: handlers *)

Init ==
    /\ variant \in {1, 2}
    /\ seedRecords \in SeedDocuments
    /\ storage \in Snapshots
    /\ LoadTakes(variant) <= MaxFresh
    /\ records = initialRecords(variant, 0)
    /\ uuid = LoadTakes(variant)
    /\ lastOp = [op |-> "Load"]
    /\ ops = 0
    /\ filters = emptyFilters
    /\ groupBy = "none"
    /\ urlIn = undefined
    /\ urlOut = <<>>
    /\ urlStr = <<>>

\* save that updates the state and leaves localStorage alone
save_memoryOnly(next) ==
    /\ records' = next
    /\ storage' = storage

\* save(next)
save(next) ==
    /\ records' = next
    /\ storage' = stringify(next)

\* a handler may run: the page renders (a render that throws unmounts the
\* component tree and its buttons with it), and the run has steps left.  The
\* edit-mode toggle of the second variant only shows and hides the buttons
\* and is always at hand: it is left out.
CanRun == Renders /\ ops < MaxOps

\* updateField's map without the comparison of ids
updateFieldMap_everyRecord(id, field, value) ==
    Arr([i \in 1..Len(records.a) |-> Spread(records.a[i], field, value)])

\* records.map((record) => (record.id === id ? { ...record, [field]: value } : record))
updateFieldMap(id, field, value) ==
    Arr([i \in 1..Len(records.a) |->
            IF Get(records.a[i], "id") = id
            THEN Spread(records.a[i], field, value)
            ELSE records.a[i]])

updateField(id, field, value) ==
    /\ save(updateFieldMap(id, field, value))
    /\ lastOp' = [op |-> "updateField", id |-> id, field |-> field, value |-> value]
    /\ ops' = ops + 1
    /\ UNCHANGED <<variant, seedRecords, uuid, viewVars, urlVars>>

\* a status select, a text input or the URL textarea changes
UpdateField ==
    /\ CanRun
    /\ \E id \in RowIds \cup {AbsentId} :
        \/ \E value \in StatusOptions : updateField(id, "status", value)
        \/ \E field \in TextFields : \E value \in TypedTexts : updateField(id, field, value)
        \/ /\ variant = 1
           /\ \E value \in TypedUrlTexts : updateField(id, "urlList", value)

\* UrlRichInput.addDraft of the row at index row
AddDraft ==
    /\ CanRun /\ variant = 2
    /\ \E row \in 1..Len(records.a) : \E draft \in Drafts :
        LET urls == records.a[row].urlList
            normalized == normalizeUrlItem([t |-> "object", tag |-> Str(draft[1]),
                                            url |-> Str(draft[2])])
        IN  /\ normalized # null
            /\ ~\E i \in 1..Len(urls.a) :
                  urls.a[i].url = normalized.url /\ urls.a[i].tag = normalized.tag
            /\ updateField(records.a[row].id, "urlList", Arr(Append(urls.a, normalized)))

\* UrlRichInput.removeAt
RemoveAt ==
    /\ CanRun /\ variant = 2
    /\ \E row \in 1..Len(records.a) :
        LET urls == records.a[row].urlList
        IN  \E index \in 1..Len(urls.a) :
                updateField(records.a[row].id, "urlList",
                            Arr([i \in 1..(Len(urls.a) - 1) |->
                                    IF i < index THEN urls.a[i] ELSE urls.a[i + 1]]))

\* UrlRichInput.updateAt
UpdateAt ==
    /\ CanRun /\ variant = 2
    /\ \E row \in 1..Len(records.a) :
        LET urls == records.a[row].urlList
        IN  \E index \in 1..Len(urls.a) : \E field \in {"tag", "url"} :
            \E value \in TypedItemTexts :
                updateField(records.a[row].id, "urlList",
                            Arr([i \in 1..Len(urls.a) |->
                                    IF i = index THEN Spread(urls.a[i], field, Str(value))
                                    ELSE urls.a[i]]))

\* addRow, and the "+ Add row" button of the second variant
addRow ==
    /\ CanRun
    /\ uuid < MaxFresh
    /\ save(Arr(Append(records.a, blankRecord(variant, uuid + 1))))
    /\ uuid' = uuid + 1
    /\ lastOp' = [op |-> "addRow"]
    /\ ops' = ops + 1
    /\ UNCHANGED <<variant, seedRecords, viewVars, urlVars>>

\* records.filter((record) => record.id !== id)
WithoutId(id) ==
    LET Keep(record) == Get(record, "id") # id
    IN  SelectSeq(records.a, Keep)

\* removeRow of the first variant
removeRow1(id) ==
    LET next == WithoutId(id)
    IN  /\ Len(next) = 0 => uuid < MaxFresh
        /\ save(IF Len(next) > 0 THEN Arr(next) ELSE Arr(<<blankRecord(1, uuid + 1)>>))
        /\ uuid' = IF Len(next) > 0 THEN uuid ELSE uuid + 1

\* the Delete button of the second variant
removeRow2(id) ==
    /\ save(Arr(WithoutId(id)))
    /\ uuid' = uuid

\* a Delete button is clicked
RemoveRow ==
    /\ CanRun
    /\ \E id \in RowIds :
        /\ IF variant = 1 THEN removeRow1(id) ELSE removeRow2(id)
        /\ lastOp' = [op |-> "removeRow", id |-> id]
    /\ ops' = ops + 1
    /\ UNCHANGED <<variant, seedRecords, viewVars, urlVars>>

\* resetFromSeed, and the "Reset to JSON seed data" button of the second variant
resetFromSeed ==
    /\ CanRun
    /\ uuid + SeedTakes(variant) <= MaxFresh
    /\ save(getSeedData(variant, uuid))
    /\ uuid' = uuid + SeedTakes(variant)
    /\ lastOp' = [op |-> "resetFromSeed"]
    /\ ops' = ops + 1
    /\ UNCHANGED <<variant, seedRecords, viewVars, urlVars>>

\* the page is loaded again: the initializer of `records` runs on what
\* localStorage holds
Load ==
    /\ ops < MaxOps
    /\ uuid + LoadTakes(variant) <= MaxFresh
    /\ records' = initialRecords(variant, uuid)
    /\ uuid' = uuid + LoadTakes(variant)
    /\ lastOp' = [op |-> "Load"]
    /\ ops' = ops + 1
    /\ UNCHANGED <<variant, seedRecords, storage, viewVars, urlVars>>

Next == UpdateField \/ AddDraft \/ RemoveAt \/ UpdateAt \/ addRow \/ RemoveRow
        \/ resetFromSeed \/ Load

Spec == Init /\ [][Next]_vars

-----------------------------------------------------------------------------
(* parseUrlList on bounded inputs *)

UrlChars == {"a", "b", " ", ",", "\n"}

RECURSIVE Texts(_)
Texts(n) ==
    IF n = 0 THEN {<<>>}
    ELSE LET shorter == Texts(n - 1)
         IN  shorter \cup {Append(s, c) : s \in shorter, c \in UrlChars}

\* what a tag or url property of a stored item may hold
UrlFieldValues == {null, Num(0), Num(7), Num(42)} \cup {Str(s) : s \in Texts(MaxFieldLen)}

UrlObjects ==
    {[t |-> "object"]}
    \cup {[t |-> "object", url |-> u] : u \in UrlFieldValues}
    \cup {[t |-> "object", tag |-> g] : g \in UrlFieldValues}
    \cup {[t |-> "object", tag |-> g, url |-> u] : g \in UrlFieldValues, u \in UrlFieldValues}

UrlInputs ==
    {Str(s) : s \in Texts(MaxLen)}
    \cup {Arr(<<Str(s)>>) : s \in Texts(MaxLen)}
    \cup {Arr(<<Str(s1), Str(s2)>>) : s1 \in Texts(1), s2 \in Texts(1)}
    \cup {Arr(<<o>>) : o \in UrlObjects}
    \cup {Arr(<<o, Str(s)>>) : o \in {UrlItem(<<"a">>, <<"b">>), UrlItem(<<" ">>, <<" ">>)},
                               s \in Texts(1)}
    \cup {Arr(<<>>), Arr(<<null>>), Arr(<<Num(1)>>), Arr(<<Arr(<<>>)>>),
          undefined, null, Num(0), Num(7), [t |-> "object"]}

InitUrl ==
    /\ urlIn \in UrlInputs
    /\ urlOut = <<>>
    /\ urlStr = <<>>
    /\ variant = 2
    /\ seedRecords = Arr(<<>>)
    /\ storage = null
    /\ records = Arr(<<>>)
    /\ uuid = 0
    /\ lastOp = [op |-> "none"]
    /\ ops = 0
    /\ filters = emptyFilters
    /\ groupBy = "none"

\* parseUrlList(urlIn)
UrlParse ==
    /\ urlOut = <<>>
    /\ urlOut' = <<parseUrlList(urlIn)>>
    /\ UNCHANGED <<urlIn, urlStr, storeVars, viewVars>>

\* parseUrlList applied to its own result
UrlReparse ==
    /\ Len(urlOut) = 1
    /\ urlOut' = Append(urlOut, parseUrlList(urlOut[1]))
    /\ UNCHANGED <<urlIn, urlStr, storeVars, viewVars>>

\* urlIn is [s]: parseUrlList(s), the string passed bare
UrlParseBare ==
    /\ urlStr = <<>>
    /\ IsArray(urlIn) /\ Len(urlIn.a) = 1 /\ IsString(urlIn.a[1])
    /\ urlStr' = <<parseUrlList(urlIn.a[1])>>
    /\ UNCHANGED <<urlIn, urlOut, storeVars, viewVars>>

NextUrl == UrlParse \/ UrlReparse \/ UrlParseBare

SpecUrl == InitUrl /\ [][NextUrl]_vars

-----------------------------------------------------------------------------
(* Claims about the store, under Spec *)

Mutations == {"updateField", "addRow", "removeRow", "resetFromSeed"}

IsUuid(v) == IsString(v) /\ Len(v.s) > 4 /\ SubSeq(v.s, 1, 4) = <<"u", "u", "i", "d">>

\* a blank record: status unset, every text field empty, no URL
IsBlank(record) ==
    /\ IsObject(record)
    /\ DOMAIN record = RecordFields \cup {"t"}
    /\ IsUuid(record.id)
    /\ \A f \in TextFields : record[f] = Str(<<>>)
    /\ record.status = Str(unset)
    /\ record.urlList \in {Str(<<>>), Arr(<<>>)}

\* C1: the in-memory record list is never empty: after Load and after any
\* updateField, addRow, removeRow and resetFromSeed it holds at least one
\* record, and a removeRow never leaves fewer than one record.
C1_ListNeverEmpty == IsArray(records) => Len(records.a) >= 1

\* C2: every record of the in-memory list has a non-empty id and a status
\* that is one of unset, wip, read, expire.
C2_IdAndStatusValid ==
    IsArray(records) =>
        \A i \in 1..Len(records.a) :
            /\ Truthy(Get(records.a[i], "id"))
            /\ IsString(Get(records.a[i], "status"))
            /\ Get(records.a[i], "status").s \in StatusKeys

\* the persisted snapshot is missing, empty, an empty array, unparsable, or
\* parsable but no array of record-like objects
MalformedSnapshot ==
    \/ storage = null
    \/ storage.kind \in {"empty", "unparsable"}
    \/ ~IsArray(storage.value)
    \/ storage.value.a = <<>>
    \/ \E i \in 1..Len(storage.value.a) : ~IsObject(storage.value.a[i])

\* every field is present and of its type, the status is a known one
FullyNormalized(record) ==
    /\ IsObject(record)
    /\ DOMAIN record = RecordFields \cup {"t"}
    /\ IsString(record.id) /\ record.id.s # <<>>
    /\ \A f \in TextFields : IsString(record[f])
    /\ IsString(record.status) /\ record.status.s \in StatusKeys
    /\ IF variant = 1 THEN IsString(record.urlList) ELSE IsArray(record.urlList)

\* the two lists hold the same records, ids made by randomUUID aside
SameButFreshIds(a, b) ==
    /\ IsArray(a) /\ IsArray(b)
    /\ Len(a.a) = Len(b.a)
    /\ \A i \in 1..Len(a.a) :
        /\ \A f \in (RecordFields \ {"id"}) : Get(a.a[i], f) = Get(b.a[i], f)
        /\ \/ Get(a.a[i], "id") = Get(b.a[i], "id")
           \/ IsUuid(Get(a.a[i], "id")) /\ IsUuid(Get(b.a[i], "id"))

\* C3: on a malformed or missing snapshot Load returns a non-empty, fully
\* normalized record list equal to the normalized seed data.
C3_MalformedLoadsSeed ==
    (lastOp.op = "Load" /\ MalformedSnapshot) =>
        /\ IsArray(records)
        /\ Len(records.a) >= 1
        /\ \A i \in 1..Len(records.a) : FullyNormalized(records.a[i])
        /\ SameButFreshIds(records, getSeedData(variant, 0))

\* C4: after every completed mutating operation the persisted snapshot is
\* the serialization of exactly the in-memory record list.
C4_StorageIsMemory ==
    lastOp.op \in Mutations =>
        /\ storage # null
        /\ storage.kind = "json"
        /\ storage.value = JsonValue(records)

\* C4's case: two mutations have run, the last a delete that left records.
C4_Witness ==
    /\ ops = 2
    /\ lastOp.op = "removeRow"
    /\ Len(records.a) >= 1
    /\ storage = JsonText(JsonValue(records))

\* C5: updateField(id, field, value) keeps the length and order of the list,
\* replaces field by value in the records whose id is id and changes nothing
\* else in them, leaves every other record as it was (all of them when no
\* record has that id), and persists the list.
C5_UpdateFieldFrame ==
    [][(lastOp'.op = "updateField" /\ ops' = ops + 1) =>
          /\ IsArray(records')
          /\ Len(records'.a) = Len(records.a)
          /\ \A i \in 1..Len(records.a) :
                LET old == records.a[i]
                    new == records'.a[i]
                IN  IF Get(old, "id") = lastOp'.id
                    THEN /\ Get(new, lastOp'.field) = lastOp'.value
                         /\ \A g \in (RecordFields \ {lastOp'.field}) :
                               Get(new, g) = Get(old, g)
                    ELSE new = old
          /\ storage' = JsonText(JsonValue(records'))]_vars

\* C5's case: a status was set on one record of a list of two.
C5_Witness ==
    /\ lastOp.op = "updateField"
    /\ lastOp.field = "status"
    /\ Len(records.a) = 2
    /\ Get(records.a[1], "id") = lastOp.id
    /\ Get(records.a[2], "id") # lastOp.id
    /\ Get(records.a[1], "status") = lastOp.value
    /\ Get(records.a[2], "status") # lastOp.value

\* the list came out of getSeedData
FromSeed == lastOp.op = "resetFromSeed" \/ (lastOp.op = "Load" /\ storage = null)

\* records holds, in order, the seed entries of the indices kept, each with
\* its tenantId and with its own id or, when it has none, a UUID; or one
\* blank record when nothing is kept
HoldsSeedEntries(kept) ==
    IF kept = {}
    THEN Len(records.a) = 1 /\ IsBlank(records.a[1])
    ELSE /\ Len(records.a) = Cardinality(kept)
         /\ \A i \in kept :
               LET entry == seedRecords.a[i]
                   record == records.a[Cardinality({j \in kept : j <= i})]
               IN  /\ Get(record, "tenantId") = Or(Get(entry, "tenantId"), Str(<<>>))
                   /\ IF Truthy(Get(entry, "id"))
                      THEN Get(record, "id") = Get(entry, "id")
                      ELSE IsUuid(Get(record, "id"))

\* C10 as stated: getSeedData discards an entry only when it lacks both id
\* and tenantId; an entry with one of the two is kept.
C10_DropsOnlyWithoutBoth ==
    (FromSeed /\ IsArray(seedRecords)) =>
        HoldsSeedEntries({i \in 1..Len(seedRecords.a) :
                            \/ Truthy(Get(seedRecords.a[i], "id"))
                            \/ Truthy(Get(seedRecords.a[i], "tenantId"))})

\* C10 amended: getSeedData keeps exactly the entries whose normalized form
\* has a non-empty id and a non-empty tenantId.  An entry without tenantId
\* is discarded even when it has an id; an entry with a tenantId and no id
\* is kept by the second variant, which gives it a UUID, and discarded by
\* the first.  If nothing is kept the result is one blank record.
C10_KeepsWithIdAndTenant ==
    (FromSeed /\ IsArray(seedRecords)) =>
        HoldsSeedEntries({i \in 1..Len(seedRecords.a) :
                            /\ Truthy(Get(seedRecords.a[i], "tenantId"))
                            /\ variant = 1 => Truthy(Get(seedRecords.a[i], "id"))})

\* C10's case: a reset from a seed document that has an entry with an id and
\* no tenantId (discarded) and one with a tenantId and no id (kept with a UUID).
C10_Witness ==
    /\ lastOp.op = "resetFromSeed"
    /\ IsArray(seedRecords)
    /\ \E i \in 1..Len(seedRecords.a) :
          Truthy(Get(seedRecords.a[i], "id")) /\ Falsy(Get(seedRecords.a[i], "tenantId"))
    /\ Len(records.a) = 2
    /\ IsUuid(records.a[2].id)
    /\ Truthy(records.a[2].tenantId)

\* no two records of the in-memory list have the same id
DistinctIds ==
    IsArray(records) =>
        \A i, j \in 1..Len(records.a) :
            i # j => Get(records.a[i], "id") # Get(records.a[j], "id")

\* the step leaves as many records as it found and each kept its id
IdsKept ==
    (IsArray(records) /\ IsArray(records') /\ Len(records'.a) = Len(records.a)) =>
        \A i \in 1..Len(records.a) :
            Get(records'.a[i], "id") = Get(records.a[i], "id")

\* C11: the ids of the records in the in-memory list are pairwise distinct
\* after every step, and a record that stays in the list keeps its id: an
\* updateField changes no id, and a Load that takes the records from the
\* persisted snapshot once more gives them the ids they had.
C11_IdsDistinctAndKept ==
    [][/\ DistinctIds'
       /\ lastOp'.op = "updateField" => IdsKept
       /\ (lastOp'.op = "Load" /\ ~LoadUsesSeed(variant)) => IdsKept]_vars

\* every URL entry of every record of the list has a url that is not empty
\* after trimming
UrlsNonEmpty(list) ==
    IsArray(list) =>
        \A i \in 1..Len(list.a) :
            LET urlList == Get(list.a[i], "urlList")
            IN  IsArray(urlList) =>
                    \A k \in 1..Len(urlList.a) :
                        IsObject(urlList.a[k]) =>
                            LET url == Get(urlList.a[k], "url")
                            IN  IsString(url) /\ Trim(url.s) # <<>>

\* C12: every URL entry of every record, in memory and in the persisted
\* snapshot, has a url that is non-empty after trimming, whatever URL-editor
\* actions were committed through updateField(id, "urlList", ...).
C12_UrlsNonEmpty ==
    /\ UrlsNonEmpty(records)
    /\ (storage # null /\ storage.kind = "json") => UrlsNonEmpty(storage.value)

\* C13: a Load that follows a completed mutating operation, reading the
\* snapshot that operation persisted, returns the in-memory list the
\* operation left: same records, same order, same ids and field values.
C13_ReloadRoundTrip ==
    [][(lastOp'.op = "Load" /\ lastOp.op \in Mutations) => records' = records]_vars

-----------------------------------------------------------------------------
(* Claims about the view, under SpecView *)

SameLetter(c, d) == c = d \/ {c, d} = {"a", "A"} \/ {c, d} = {"b", "B"}

\* needle occurs in hay, the case of the letters aside
OccursIgnoringCase(needle, hay) ==
    \E k \in 0..(Len(hay) - Len(needle)) :
        \A j \in 1..Len(needle) : SameLetter(hay[k + j], needle[j])

\* the record meets the four criteria
MeetsCriteria(record) ==
    /\ filters.status.s = all \/ record.status.s = filters.status.s
    /\ OccursIgnoringCase(filters.tenantId.s, record.tenantId.s)
    /\ OccursIgnoringCase(filters.branchName.s, record.branchName.s)
    /\ OccursIgnoringCase(filters.usage.s, record.usage.s)

\* out holds, in the order of list, exactly the entries of list at the indices idx
IsSubsequenceAt(out, list, idx) ==
    /\ Len(out) = Cardinality(idx)
    /\ \A i \in idx : out[Cardinality({j \in idx : j <= i})] = list[i]

\* C6: filteredRecords holds, in input order, exactly the records that meet
\* the status criterion and whose tenantId, branchName and usage contain the
\* criteria as case-insensitive substrings (an empty criterion matching all).
C6_FilterExact ==
    IsSubsequenceAt(filteredRecords, records.a,
                    {i \in 1..Len(records.a) : MeetsCriteria(records.a[i])})

\* C6's case: a text criterion matches a record only because case is
\* ignored, and another record is filtered out.
C6_Witness ==
    /\ filters.tenantId = Str(<<"a">>)
    /\ Len(filteredRecords) >= 1
    /\ Len(filteredRecords) < Len(records.a)
    /\ \E i \in 1..Len(filteredRecords) :
          ~includes(filteredRecords[i].tenantId.s, filters.tenantId.s)

\* the group key of a record: its field's value, "Unspecified" when empty
KeyOf(record) == IF record[groupBy].s = <<>> THEN Unspecified ELSE record[groupBy].s

FirstWith(key) ==
    CHOOSE i \in 1..Len(filteredRecords) :
        /\ KeyOf(filteredRecords[i]) = key
        /\ \A j \in 1..(i - 1) : KeyOf(filteredRecords[j]) # key

\* C7: for a key among status, usage, branchName the groups partition exactly
\* the filtered records by the field's value (empty values under
\* "Unspecified"), in order of first appearance, the rows of a group in input
\* order; for none there is one group holding every filtered record.
C7_GroupsPartitionFiltered ==
    LET groups == groupedRecords
        rows == filteredRecords
    IN  IF groupBy = "none"
        THEN groups = <<[key |-> AllRecords, rows |-> rows]>>
        ELSE /\ \A g \in 1..Len(groups) :
                  /\ groups[g].rows # <<>>
                  /\ IsSubsequenceAt(groups[g].rows, rows,
                                     {i \in 1..Len(rows) : KeyOf(rows[i]) = groups[g].key})
             /\ \A i \in 1..Len(rows) : \E g \in 1..Len(groups) : groups[g].key = KeyOf(rows[i])
             /\ \A g, h \in 1..Len(groups) :
                  g < h => /\ groups[g].key # groups[h].key
                           /\ FirstWith(groups[g].key) < FirstWith(groups[h].key)

\* C7's case: grouping by usage while a filter hides a record: two groups,
\* "Unspecified" among them, one with two rows.
C7_Witness ==
    /\ groupBy = "usage"
    /\ Len(filteredRecords) < Len(records.a)
    /\ Len(groupedRecords) = 2
    /\ \E g \in 1..2 : groupedRecords[g].key = Unspecified
    /\ \E g \in 1..2 : Len(groupedRecords[g].rows) = 2

-----------------------------------------------------------------------------
(* Claims about parseUrlList, under SpecUrl *)

\* C8: parseUrlList is idempotent: applied to its own result on any input
\* (a string, an array of strings, an array of partial {tag,url} objects,
\* anything else) it returns that result again.
C8_Idempotent == Len(urlOut) = 2 => urlOut[2] = urlOut[1]

\* C8's case: a second pass has run over a non-empty result that the first
\* pass had to change (trimmed, defaulted or re-shaped).
C8_Witness ==
    /\ Len(urlOut) = 2
    /\ urlOut[1].a # <<>>
    /\ urlOut[1] # urlIn
    /\ IsArray(urlIn)

AllStrings(input) == IsArray(input) /\ \A i \in 1..Len(input.a) : IsString(input.a[i])

\* u is s without its leading and trailing whitespace
IsTrimOf(u, s) ==
    \E j \in 1..(Len(s) + 1) : \E k \in 0..Len(s) :
        /\ u = SubSeq(s, j, k)
        /\ \A i \in 1..Len(s) : (i < j \/ i > k) => IsSpace(s[i])
        /\ u # <<>> => ~IsSpace(u[1]) /\ ~IsSpace(u[Len(u)])

\* s holds no comma and no whitespace between two of its other characters
NoInnerDelimiter(s) ==
    /\ \A i \in 1..Len(s) : s[i] # ","
    /\ \A i, j, k \in 1..Len(s) :
        (i < j /\ j < k /\ IsSpace(s[j])) => (IsSpace(s[i]) \/ IsSpace(s[k]))

\* C9 as stated: parseUrlList([s]) equals parseUrlList(s) for every string s.
C9_ArrayAsBareString ==
    (Len(urlOut) >= 1 /\ urlStr # <<>>) => urlOut[1] = urlStr[1]

\* C9 amended: an array of strings is not split.  Each element is trimmed,
\* dropped when nothing is left, and otherwise wrapped whole as one entry
\* with tag "Link", in input order; parseUrlList([s]) equals parseUrlList(s)
\* exactly when s holds no comma and no whitespace between its other
\* characters.
C9_ArrayElementsWhole ==
    /\ (Len(urlOut) >= 1 /\ AllStrings(urlIn)) =>
          LET out == urlOut[1].a
              keptIdx == {i \in 1..Len(urlIn.a) :
                            \E c \in 1..Len(urlIn.a[i].s) : ~IsSpace(urlIn.a[i].s[c])}
          IN  /\ Len(out) = Cardinality(keptIdx)
              /\ \A i \in keptIdx :
                    LET pos == Cardinality({j \in keptIdx : j <= i})
                    IN  /\ out[pos].tag = Str(Link)
                        /\ IsString(out[pos].url)
                        /\ IsTrimOf(out[pos].url.s, urlIn.a[i].s)
    /\ (Len(urlOut) >= 1 /\ urlStr # <<>>) =>
          ((urlOut[1] = urlStr[1]) <=> NoInnerDelimiter(urlIn.a[1].s))

\* C9's case: an array element with a delimiter inside it was normalized,
\* and the same string passed bare gave two entries.
C9_Witness ==
    /\ Len(urlOut) >= 1 /\ urlStr # <<>>
    /\ AllStrings(urlIn)
    /\ Len(urlOut[1].a) = 1
    /\ Len(urlStr[1].a) = 2

====
